---- MODULE Spec2Model ----
(***************************************************************************)
(* A model of code_analyzer.py: the CodeAnalyzer object (its result store, *)
(* its blank-line counter, its current path), the nine line checks, the    *)
(* syntax-tree check, check_file / check_path and print_result.            *)
(*                                                                         *)
(* A character is a one-character string and a text is a sequence of       *)
(* characters, so that lengths, splits, strips and regular expressions are *)
(* computed on the characters as the code computes them.                   *)
(***************************************************************************)
EXTENDS Integers, Sequences, FiniteSets, TLC

\* ------------------------------------------------------------------------
\* Bounds of the model.

\* Lines read in one run, over all files.
MaxLines == 4

\* ------------------------------------------------------------------------
\* Characters.

\* The printable ASCII characters, code points 32 to 126, in order (the
\* grave accent, code point 96, is spelled out: no text of the model holds it).
Ascii ==
    << " ", "!", "\"", "#", "$", "%", "&", "'", "(", ")", "*", "+", ",", "-", ".", "/",
       "0", "1", "2", "3", "4", "5", "6", "7", "8", "9", ":", ";", "<", "=", ">", "?",
       "@", "A", "B", "C", "D", "E", "F", "G", "H", "I", "J", "K", "L", "M", "N", "O",
       "P", "Q", "R", "S", "T", "U", "V", "W", "X", "Y", "Z", "[", "\\", "]", "^", "_",
       "GRAVE", "a", "b", "c", "d", "e", "f", "g", "h", "i", "j", "k", "l", "m", "n", "o",
       "p", "q", "r", "s", "t", "u", "v", "w", "x", "y", "z", "{", "|", "}", "~" >>

\* The other characters of the model, each with its code point: the white
\* space of Unicode but the space itself. Those that cannot be written in a
\* string are spelled out (VT is the vertical tab, FS, GS, RS and US the
\* separators 28 to 31, NEL the next line, NBSP the no-break space, U+xxxx
\* the character of that code point).
OtherChars ==
    << <<"\t", 9>>, <<"\n", 10>>, <<"VT", 11>>, <<"\f", 12>>, <<"\r", 13>>,
       <<"FS", 28>>, <<"GS", 29>>, <<"RS", 30>>, <<"US", 31>>,
       <<"NEL", 133>>, <<"NBSP", 160>>, <<"U+1680", 5760>>,
       <<"U+2000", 8192>>, <<"U+2001", 8193>>, <<"U+2002", 8194>>,
       <<"U+2003", 8195>>, <<"U+2004", 8196>>, <<"U+2005", 8197>>,
       <<"U+2006", 8198>>, <<"U+2007", 8199>>, <<"U+2008", 8200>>,
       <<"U+2009", 8201>>, <<"U+200A", 8202>>, <<"U+2028", 8232>>,
       <<"U+2029", 8233>>, <<"U+202F", 8239>>, <<"U+205F", 8287>>,
       <<"U+3000", 12288>> >>

\* The code point of a character (ord).
Ord(c) ==
    IF \E i \in 1..Len(OtherChars) : OtherChars[i][1] = c
    THEN OtherChars[CHOOSE i \in 1..Len(OtherChars) : OtherChars[i][1] = c][2]
    ELSE 31 + (CHOOSE i \in 1..Len(Ascii) : Ascii[i] = c)

\* A regular expression's character range [a-b]: the characters whose code
\* points lie between those of a and b.
CharRange(a, b) == { Ascii[i] : i \in (Ord(a) - 31)..(Ord(b) - 31) }

\* The character classes of the patterns.
UpperAZ == CharRange("A", "Z")

LowerAZ == CharRange("a", "z")

Digits == CharRange("0", "9")

\* [a-zA-z] as the code writes it (line 132): the second range ends at the
\* lower-case z, so it also holds the six characters between "Z" and "a".
LetterAz == CharRange("a", "z") \cup CharRange("A", "z")

\* str.lower() on one character.
lower_char(c) ==
    IF c \in UpperAZ THEN Ascii[Ord(c) - 31 + 32] ELSE c

\* str.lower()
lower(t) == [i \in 1..Len(t) |-> lower_char(t[i])]

\* The characters str.rstrip() strips when given no argument: those for
\* which str.isspace() holds.
Whitespace == {" "} \cup { OtherChars[i][1] : i \in 1..Len(OtherChars) }

\* str.rstrip(chars): the text without its trailing characters of S.
rstrip(t, S) ==
    LET k == CHOOSE k \in 0..Len(t) :
                 /\ \A i \in (k + 1)..Len(t) : t[i] \in S
                 /\ (k = 0 \/ t[k] \notin S)
    IN  SubSeq(t, 1, k)

\* str.split(c): the parts of t between the occurrences of c.
RECURSIVE split(_, _)
split(t, c) ==
    IF \E i \in 1..Len(t) : t[i] = c
    THEN LET i == CHOOSE i \in 1..Len(t) :
                      t[i] = c /\ \A j \in 1..(i - 1) : t[j] # c
         IN  <<SubSeq(t, 1, i - 1)>> \o split(SubSeq(t, i + 1, Len(t)), c)
    ELSE <<t>>

\* The test (s in t) on strings: s occurs in t as a substring.
contains(t, s) ==
    \E i \in 0..(Len(t) - Len(s)) : SubSeq(t, i + 1, i + Len(s)) = s

\* ------------------------------------------------------------------------
\* Regular expressions, as re.match runs them: a pattern element maps the set
\* of positions (characters consumed so far) a match may have reached to the
\* set it may reach after the element; the pattern matches when the set is
\* not empty at its end. Matching starts at position 0 and may end anywhere.

\* A literal string.
Lit(t, s, P) ==
    { p + Len(s) : p \in { q \in P : /\ q + Len(s) <= Len(t)
                                     /\ SubSeq(t, q + 1, q + Len(s)) = s } }

\* One character of the set S.
OneOf(t, S, P) == { p + 1 : p \in { q \in P : q < Len(t) /\ t[q + 1] \in S } }

\* One character not in the set S ([^...]).
NoneOf(t, S, P) == { p + 1 : p \in { q \in P : q < Len(t) /\ t[q + 1] \notin S } }

\* S*: zero or more characters of S.
Star(t, S, P) ==
    { q \in 0..Len(t) : \E p \in P : p <= q /\ \A i \in (p + 1)..q : t[i] \in S }

\* S+: one or more characters of S.
Plus(t, S, P) == Star(t, S, OneOf(t, S, P))

\* r'.*[A-Z]' (line 143): "." is any character but a newline.
template(t) ==
    OneOf(t, UpperAZ,
        { q \in 0..Len(t) : \A i \in 1..q : t[i] # "\n" }) # {}

\* r'[^#]? *_?_?def {2,}' (line 124)
def_template(t) ==
    LET p1 == {0} \cup NoneOf(t, {"#"}, {0})
        p2 == Star(t, {" "}, p1)
        p3 == p2 \cup OneOf(t, {"_"}, p2)
        p4 == p3 \cup OneOf(t, {"_"}, p3)
        p5 == Lit(t, <<"d", "e", "f">>, p4)
    IN  Star(t, {" "}, OneOf(t, {" "}, OneOf(t, {" "}, p5))) # {}

\* r'[^#]? *class {2,}' (line 125)
class_template(t) ==
    LET p1 == {0} \cup NoneOf(t, {"#"}, {0})
        p2 == Star(t, {" "}, p1)
        p3 == Lit(t, <<"c", "l", "a", "s", "s">>, p2)
    IN  Star(t, {" "}, OneOf(t, {" "}, OneOf(t, {" "}, p3))) # {}

\* r' *class +[a-z]' (line 131)
lwrcase_template(t) ==
    LET p1 == Lit(t, <<"c", "l", "a", "s", "s">>, Star(t, {" "}, {0}))
    IN  OneOf(t, LowerAZ, Plus(t, {" "}, p1)) # {}

\* r' *class +[a-zA-z]+_' (line 132)
undscr_template(t) ==
    LET p1 == Lit(t, <<"c", "l", "a", "s", "s">>, Star(t, {" "}, {0}))
        p2 == Plus(t, LetterAz, Plus(t, {" "}, p1))
    IN  OneOf(t, {"_"}, p2) # {}

\* r' *def +[a-z0-9_]*[A-Z]' (line 138)
function_template(t) ==
    LET p1 == Lit(t, <<"d", "e", "f">>, Star(t, {" "}, {0}))
        p2 == Star(t, LowerAZ \cup Digits \cup {"_"},
                   Plus(t, {" "}, p1))
    IN  OneOf(t, UpperAZ, p2) # {}

\* ------------------------------------------------------------------------
\* The CodeAnalyzer object. `self` is the record of the fields the methods
\* read and write: current_path (a text), preceding_blank_lines and result.
\* result is the dict: its items in insertion order, each [key, val], val the
\* list of (line_number, code) pairs.

\* self.issues (lines 49-61)
issues ==
    [ S001 |-> "Too long",
      S002 |-> "Indentation is not a multiple of four",
      S003 |-> "Unnecessary semicolon after a statement",
      S004 |-> "Less than two spaces before inline comments",
      S005 |-> "TODO found",
      S006 |-> "More than two blank lines preceding a code line",
      S007 |-> "Too many spaces after construction_name (def or class)",
      S008 |-> "Class name class_name should be written in CamelCase",
      S009 |-> "Function name function_name should be written in snake_case",
      S010 |-> "Argument name arg_name should be written in snake_case",
      S011 |-> "Variable var_name should be written in snake_case",
      S012 |-> "The default argument value is mutable" ]

\* The keys of a dict, in insertion order.
keys(d) == [i \in 1..Len(d) |-> d[i].key]

\* d[k] for a key the dict holds.
lookup(d, k) == d[CHOOSE i \in 1..Len(d) : d[i].key = k].val

\* output (lines 64-68): append to the list of the current path, or start it.
output(self, line_number, code) ==
    LET k == self.current_path
        d == self.result
    IN  IF \E i \in 1..Len(d) : d[i].key = k
        THEN [self EXCEPT !.result =
                 [i \in 1..Len(d) |->
                     IF d[i].key = k
                     THEN [d[i] EXCEPT !.val = Append(@, <<line_number, code>>)]
                     ELSE d[i]]]
        ELSE [self EXCEPT !.result =
                 Append(d, [key |-> k, val |-> <<<<line_number, code>>>>])]

\* len_check with the limit one off: a line of 80 characters passes.
len_check_off_by_one(self, line, line_number) ==
    IF Len(rstrip(line, {"\n"})) > 80
    THEN output(self, line_number, "S001")
    ELSE self

\* len_check (lines 70-73)
len_check(self, line, line_number) ==
    IF Len(rstrip(line, {"\n"})) > 79
    THEN output(self, line_number, "S001")
    ELSE self

\* ident_check (lines 75-83): the leading spaces are counted.
ident_check(self, line, line_number) ==
    LET ident_counter ==
            CHOOSE k \in 0..Len(line) :
                /\ \A i \in 1..k : line[i] = " "
                /\ (k = Len(line) \/ line[k + 1] # " ")
    IN  IF ident_counter > 0 /\ (ident_counter % 4) # 0
        THEN output(self, line_number, "S002")
        ELSE self

\* semicolon_check (lines 85-91)
semicolon_check(self, line, line_number) ==
    LET code_part == rstrip(split(line, "#")[1], Whitespace)
    IN  IF Len(code_part) > 0 /\ code_part[Len(code_part)] = ";"
        THEN output(self, line_number, "S003")
        ELSE self

\* two_spaces_check (lines 93-99): line[0][-2:] is the last two characters of
\* the part before the first "#", or all of it when it is shorter.
two_spaces_check(self, line, line_number) ==
    IF line[1] = "#"
    THEN self
    ELSE LET parts == split(line, "#")
             first == parts[1]
             last2 == SubSeq(first, IF Len(first) > 2 THEN Len(first) - 1 ELSE 1,
                             Len(first))
         IN  IF Len(parts) > 1 /\ last2 # <<" ", " ">>
             THEN output(self, line_number, "S004")
             ELSE self

\* todo_check without its break: one finding for every comment part that
\* holds "todo".
RECURSIVE todo_parts_no_break(_, _, _)
todo_parts_no_break(self, parts, line_number) ==
    IF parts = <<>>
    THEN self
    ELSE todo_parts_no_break(
             IF contains(lower(Head(parts)), <<"t", "o", "d", "o">>)
             THEN output(self, line_number, "S005")
             ELSE self,
             Tail(parts), line_number)

todo_check_no_break(self, line, line_number) ==
    todo_parts_no_break(self, Tail(split(line, "#")), line_number)

\* todo_check (lines 101-109): one finding at the first comment part that
\* holds "todo", then break.
todo_check(self, line, line_number) ==
    LET parts == split(line, "#")
    IN  IF Len(parts) > 1
           /\ \E i \in 2..Len(parts) :
                  contains(lower(parts[i]), <<"t", "o", "d", "o">>)
        THEN output(self, line_number, "S005")
        ELSE self

\* blank_lines_check (lines 111-120)
blank_lines_check(self, line, line_number) ==
    IF rstrip(line, {"\n"}) = <<>>
    THEN [self EXCEPT !.preceding_blank_lines = @ + 1]
    ELSE IF self.preceding_blank_lines > 2
    THEN output([self EXCEPT !.preceding_blank_lines = 0], line_number, "S006")
    ELSE IF 0 < self.preceding_blank_lines /\ self.preceding_blank_lines <= 2
    THEN [self EXCEPT !.preceding_blank_lines = 0]
    ELSE self

\* def_spaces_check (lines 122-127)
def_spaces_check(self, line, line_number) ==
    IF def_template(line) \/ class_template(line)
    THEN output(self, line_number, "S007")
    ELSE self

\* class_naming_check (lines 129-134)
class_naming_check(self, line, line_number) ==
    IF lwrcase_template(line) \/ undscr_template(line)
    THEN output(self, line_number, "S008")
    ELSE self

\* function_naming_check (lines 136-140)
function_naming_check(self, line, line_number) ==
    IF function_template(line)
    THEN output(self, line_number, "S009")
    ELSE self

\* The loop body with two calls swapped: todo_check before two_spaces_check.
check_line_swapped(self, line, line_number) ==
    LET s1 == len_check(self, line, line_number)
        s2 == ident_check(s1, line, line_number)
        s3 == semicolon_check(s2, line, line_number)
        s4 == todo_check(s3, line, line_number)
        s5 == two_spaces_check(s4, line, line_number)
        s6 == blank_lines_check(s5, line, line_number)
        s7 == def_spaces_check(s6, line, line_number)
        s8 == class_naming_check(s7, line, line_number)
    IN  function_naming_check(s8, line, line_number)

\* The body of check_file's loop (lines 176-184): the nine checks of one
\* line, in the order the code calls them.
check_line(self, line, line_number) ==
    LET s1 == len_check(self, line, line_number)
        s2 == ident_check(s1, line, line_number)
        s3 == semicolon_check(s2, line, line_number)
        s4 == two_spaces_check(s3, line, line_number)
        s5 == todo_check(s4, line, line_number)
        s6 == blank_lines_check(s5, line, line_number)
        s7 == def_spaces_check(s6, line, line_number)
        s8 == class_naming_check(s7, line, line_number)
    IN  function_naming_check(s8, line, line_number)

\* ------------------------------------------------------------------------
\* The syntax tree (module ast). A node is a record with its type and the
\* fields the code reads; statement nodes carry lineno.

\* ast.Name, ast.Constant, ast.List, ast.arg
Name(id) == [type |-> "Name", id |-> id]

Constant == [type |-> "Constant"]

List == [type |-> "List"]

arg(name) == [type |-> "arg", arg |-> name]

\* ast.arguments: vararg and kwarg are lists of none or one arg; kw_defaults
\* holds the defaults the keyword-only arguments have.
arguments(posonlyargs, args, vararg, kwonlyargs, kw_defaults, kwarg, defaults) ==
    [ type |-> "arguments", posonlyargs |-> posonlyargs, args |-> args,
      vararg |-> vararg, kwonlyargs |-> kwonlyargs, kw_defaults |-> kw_defaults,
      kwarg |-> kwarg, defaults |-> defaults ]

\* ast.FunctionDef, ast.ClassDef, ast.Assign, ast.Pass, before the parser has
\* given them their line.
FunctionDef(args, body) ==
    [type |-> "FunctionDef", lineno |-> 0, args |-> args, body |-> body]

ClassDef(body) == [type |-> "ClassDef", lineno |-> 0, body |-> body]

Assign(targets, value) ==
    [type |-> "Assign", lineno |-> 0, targets |-> targets, value |-> value]

Pass == [type |-> "Pass", lineno |-> 0]

\* A source line that is no statement (blank, or a comment alone), and one
\* the parser rejects.
NoStmt == [type |-> "NoStmt"]

Invalid == [type |-> "Invalid"]

\* The parser's line numbers: every node of a one-line statement is on the
\* statement's line.
RECURSIVE with_lineno(_, _)
with_lineno(node, n) ==
    IF node.type \in {"FunctionDef", "ClassDef"}
    THEN [node EXCEPT !.lineno = n,
                      !.body = [i \in 1..Len(node.body) |-> with_lineno(node.body[i], n)]]
    ELSE [node EXCEPT !.lineno = n]

\* ast.iter_child_nodes: the child nodes of a node, field by field.
iter_child_nodes(node) ==
    CASE node.type \in {"Module", "ClassDef"} -> node.body
      [] node.type = "FunctionDef" -> <<node.args>> \o node.body
      [] node.type = "arguments" ->
             node.posonlyargs \o node.args \o node.vararg \o node.kwonlyargs
                 \o node.kw_defaults \o node.kwarg \o node.defaults
      [] node.type = "Assign" -> node.targets \o <<node.value>>
      [] OTHER -> <<>>

\* ast.walk: the nodes of the tree, breadth first.
RECURSIVE walk_todo(_)
walk_todo(todo) ==
    IF todo = <<>>
    THEN <<>>
    ELSE <<Head(todo)>> \o walk_todo(Tail(todo) \o iter_child_nodes(Head(todo)))

walk(tree) == walk_todo(<<tree>>)

\* The loop of lines 152-154: one S010 at the function's line for each name
\* of node.args.args that matches the template.
RECURSIVE check_args(_, _, _)
check_args(self, lineno, args) ==
    IF args = <<>>
    THEN self
    ELSE check_args(IF template(Head(args))
                    THEN output(self, lineno, "S010")
                    ELSE self,
                    lineno, Tail(args))

\* The loop of lines 156-160: only the first default is looked at.
RECURSIVE check_defaults(_, _, _, _)
check_defaults(self, lineno, args_default, mutable_found) ==
    IF args_default = <<>>
    THEN self
    ELSE IF ~mutable_found
    THEN check_defaults(IF Head(args_default).type # "Constant"
                        THEN output(self, lineno, "S012")
                        ELSE self,
                        lineno, Tail(args_default), TRUE)
    ELSE check_defaults(self, lineno, Tail(args_default), mutable_found)

\* The loop of lines 162-169: one S011 for each target that has an id
\* matching the template.
RECURSIVE check_targets(_, _, _)
check_targets(self, lineno, targets) ==
    IF targets = <<>>
    THEN self
    ELSE check_targets(IF "id" \in DOMAIN Head(targets) /\ template(Head(targets).id)
                       THEN output(self, lineno, "S011")
                       ELSE self,
                       lineno, Tail(targets))

\* The body of the loop over ast.walk (lines 147-169), for one node.
check_node(self, node) ==
    IF node.type = "FunctionDef"
    THEN LET args == [i \in 1..Len(node.args.args) |-> node.args.args[i].arg]
             args_default == node.args.defaults
         IN  check_defaults(check_args(self, node.lineno, args),
                            node.lineno, args_default, FALSE)
    ELSE IF node.type = "Assign"
    THEN check_targets(self, node.lineno, node.targets)
    ELSE self

RECURSIVE check_nodes(_, _)
check_nodes(self, nodes) ==
    IF nodes = <<>>
    THEN self
    ELSE check_nodes(check_node(self, Head(nodes)), Tail(nodes))

\* arguments_check after the parse (lines 146-169)
arguments_check(self, tree) == check_nodes(self, walk(tree))

\* ------------------------------------------------------------------------
\* print_result.

\* The order of str: by code point, a proper prefix first.
str_lt(a, b) ==
    \E i \in 1..(Len(a) + 1) :
        /\ i <= Len(b)
        /\ \A j \in 1..(i - 1) : j <= Len(a) /\ a[j] = b[j]
        /\ (i = Len(a) + 1 \/ Ord(a[i]) < Ord(b[i]))

\* sorted(list) for a list of distinct strings.
RECURSIVE sorted(_)
sorted(l) ==
    IF l = <<>>
    THEN <<>>
    ELSE LET m == CHOOSE i \in 1..Len(l) : \A j \in 1..Len(l) : ~str_lt(l[j], l[i])
         IN  <<l[m]>> \o sorted(SubSeq(l, 1, m - 1) \o SubSeq(l, m + 1, Len(l)))

\* The line print writes for one finding of a file (line 204).
print_line(file_name, finding) ==
    [ file_name |-> file_name, line |-> finding[1], code |-> finding[2],
      issue |-> issues[finding[2]] ]

\* The lines print_result writes for the files of a list, in its order.
RECURSIVE print_files(_, _)
print_files(d, file_names) ==
    IF file_names = <<>>
    THEN <<>>
    ELSE LET val == lookup(d, Head(file_names))
         IN  [i \in 1..Len(val) |-> print_line(Head(file_names), val[i])]
                 \o print_files(d, Tail(file_names))

\* print_result without sorted: the files in the dict's insertion order.
print_result_unsorted(self) == print_files(self.result, keys(self.result))

\* print_result (lines 200-204)
print_result(self) == print_files(self.result, sorted(keys(self.result)))

\* ------------------------------------------------------------------------
\* Source files. A file is a sequence of source lines taken from a table of
\* one-line Python statements; the table gives each line's text (without
\* its newline) and the statement ast.parse makes of it. Every line stands
\* at the top level of the module, so the tree of a file is the Module of
\* the statements of its lines, each on its own line number.

\* n times the character c.
Rep(c, n) == [i \in 1..n |-> c]

Lines ==
    [ \* (an empty line)
      blank |-> [text |-> <<>>, stmt |-> NoStmt],
      \* x = 1  # ccc...c        (79 characters)
      long79 |->
        [text |-> <<"x", " ", "=", " ", "1", " ", " ", "#", " ">> \o Rep("c", 70),
         stmt |-> Assign(<<Name(<<"x">>)>>, Constant)],
      \* def  fA(A, B=[], c=1): Bad = 1;# todo # TODO ccc...c   (80 characters)
      bigdef |->
        [text |-> <<"d", "e", "f", " ", " ", "f", "A", "(", "A", ",", " ", "B", "=",
                    "[", "]", ",", " ", "c", "=", "1", ")", ":", " ", "B", "a", "d",
                    " ", "=", " ", "1", ";", "#", " ", "t", "o", "d", "o", " ", "#",
                    " ", "T", "O", "D", "O", " ">> \o Rep("c", 35),
         stmt |-> FunctionDef(
                      arguments(<<>>, <<arg(<<"A">>), arg(<<"B">>), arg(<<"c">>)>>,
                                <<>>, <<>>, <<>>, <<>>, <<List, Constant>>),
                      <<Assign(<<Name(<<"B", "a", "d">>)>>, Constant)>>)],
      \* class  a_b: Bad = 1
      clsline |->
        [text |-> <<"c", "l", "a", "s", "s", " ", " ", "a", "_", "b", ":", " ", "B",
                    "a", "d", " ", "=", " ", "1">>,
         stmt |-> ClassDef(<<Assign(<<Name(<<"B", "a", "d">>)>>, Constant)>>)],
      \*  # todo
      hash |-> [text |-> <<" ", "#", " ", "t", "o", "d", "o">>, stmt |-> NoStmt],
      \* x;<VT>      (a vertical tab after the semicolon: no Python)
      vtab |-> [text |-> <<"x", ";", "VT">>, stmt |-> Invalid],
      \* Bad = 1
      modvar |->
        [text |-> <<"B", "a", "d", " ", "=", " ", "1">>,
         stmt |-> Assign(<<Name(<<"B", "a", "d">>)>>, Constant)],
      \* def f(): Bad = 1
      fnvar |->
        [text |-> <<"d", "e", "f", " ", "f", "(", ")", ":", " ", "B", "a", "d", " ",
                    "=", " ", "1">>,
         stmt |-> FunctionDef(
                      arguments(<<>>, <<>>, <<>>, <<>>, <<>>, <<>>, <<>>),
                      <<Assign(<<Name(<<"B", "a", "d">>)>>, Constant)>>)],
      \* def f(*, Bad=[]): pass
      kwonly |->
        [text |-> <<"d", "e", "f", " ", "f", "(", "*", ",", " ", "B", "a", "d", "=",
                    "[", "]", ")", ":", " ", "p", "a", "s", "s">>,
         stmt |-> FunctionDef(
                      arguments(<<>>, <<>>, <<>>, <<arg(<<"B", "a", "d">>)>>,
                                <<List>>, <<>>, <<>>),
                      <<Pass>>)],
      \* def f(A, b=1, c=[]): pass
      posargs |->
        [text |-> <<"d", "e", "f", " ", "f", "(", "A", ",", " ", "b", "=", "1", ",",
                    " ", "c", "=", "[", "]", ")", ":", " ", "p", "a", "s", "s">>,
         stmt |-> FunctionDef(
                      arguments(<<>>, <<arg(<<"A">>), arg(<<"b">>), arg(<<"c">>)>>,
                                <<>>, <<>>, <<>>, <<>>, <<Constant, List>>),
                      <<Pass>>)] ]

\* The lines the files of the line-scan specification are made of, and those
\* of the syntax-tree specification.
ScanLines == {"blank", "long79", "bigdef", "vtab"}

TreeLines == {"hash", "modvar", "clsline", "fnvar", "kwonly", "posargs"}

\* A line as the file object yields it: a file line is [line, nl], the name
\* of a source line and whether a newline ends it (the last line of a file
\* may have none).
line_text(fl) == Lines[fl.line].text \o (IF fl.nl THEN <<"\n">> ELSE <<>>)

\* The statements of the lines from n on, each with its line number.
RECURSIVE body_from(_, _)
body_from(flines, n) ==
    IF n > Len(flines)
    THEN <<>>
    ELSE (IF Lines[flines[n].line].stmt.type = "NoStmt"
          THEN <<>>
          ELSE <<with_lineno(Lines[flines[n].line].stmt, n)>>)
         \o body_from(flines, n + 1)

\* ast.parse(open(file_path).read()) (lines 144-145): the Module of the
\* file, or SyntaxError when a line is no Python.
ast_parse(flines) ==
    IF \E n \in 1..Len(flines) : Lines[flines[n].line].stmt.type = "Invalid"
    THEN [type |-> "SyntaxError"]
    ELSE [type |-> "Module", body |-> body_from(flines, 1)]

\* ------------------------------------------------------------------------
\* The run: __main__ (lines 215-219) makes one CodeAnalyzer, calls check_path
\* and then print_result.

\* The path given on the command line: the file ./a.py, or the directory
\* d/ (neither in the form str(Path(...)) gives it).
FileInput == <<".", "/", "a", ".", "p", "y">>

DirInput == <<"d", "/">>

\* The names of the entries of the directory d.
DirNames == { <<"a", ".", "p", "y">>, <<"a", "b", ".", "p", "y">>, <<"b", ".", "t", "x", "t">> }

\* The parts of a path as Path keeps them: the texts between the slashes
\* but the empty ones and ".".
path_parts(t) ==
    LET Kept(x) == x # <<>> /\ x # <<".">>
    IN  SelectSeq(split(t, "/"), Kept)

\* The root Path keeps: "//" for exactly two leading slashes, "/" for one or
\* for three and more, none otherwise.
path_root(t) ==
    LET n == CHOOSE n \in 0..Len(t) :
                 /\ \A i \in 1..n : t[i] = "/"
                 /\ (n = Len(t) \/ t[n + 1] # "/")
    IN  IF n = 2 THEN <<"/", "/">> ELSE IF n >= 1 THEN <<"/">> ELSE <<>>

\* "/".join(parts)
RECURSIVE join_parts(_)
join_parts(parts) ==
    IF parts = <<>> THEN <<>>
    ELSE IF Len(parts) = 1 THEN Head(parts)
    ELSE Head(parts) \o <<"/">> \o join_parts(Tail(parts))

\* str of the Path with this root and these parts: "." when it has neither.
format_path(root, parts) ==
    IF root = <<>> /\ parts = <<>> THEN <<".">> ELSE root \o join_parts(parts)

\* str(Path(t))
str_path(t) == format_path(path_root(t), path_parts(t))

\* str(Path(base) / name), for the name of a directory entry.
joinpath(base, name) == format_path(path_root(base), path_parts(base) \o <<name>>)

\* Path.name: the text after the last "/".
path_name(path) == LET parts == split(path, "/") IN parts[Len(parts)]

\* str.endswith
endswith(t, s) == Len(t) >= Len(s) /\ SubSeq(t, Len(t) - Len(s) + 1, Len(t)) = s

\* Every path a run may open.
Paths == {str_path(FileInput)} \cup { joinpath(DirInput, n) : n \in DirNames }

VARIABLES
    input_path,             \* self.input_path
    pending,                \* the directory's entries iterdir has yet to yield
    current_path,           \* self.current_path, as str gives it
    preceding_blank_lines,  \* self.preceding_blank_lines
    result,                 \* self.result
    line_number,            \* check_file's line_number
    files,                  \* the lines read from each file so far
    checked,                \* the files check_file was called on, in order
    stdout,                 \* the lines printed
    pc                      \* where the run is

vars == << input_path, pending, current_path, preceding_blank_lines, result,
           line_number, files, checked, stdout, pc >>

\* os.path.isfile(self.input_path)
isfile == input_path = FileInput

\* The CodeAnalyzer's fields as one record.
self_now ==
    [ current_path |-> current_path,
      preceding_blank_lines |-> preceding_blank_lines,
      result |-> result ]

\* The lines read so far in the whole run.
RECURSIVE lines_read(_)
lines_read(S) ==
    IF S = {} THEN 0
    ELSE LET p == CHOOSE p \in S : TRUE IN Len(files[p]) + lines_read(S \ {p})

\* __init__ (lines 45-62), before check_path is called.
Init ==
    /\ input_path \in {FileInput, DirInput}
    /\ pending = IF input_path = DirInput
                 THEN { joinpath(DirInput, n) : n \in DirNames }
                 ELSE {}
    /\ current_path = <<>>
    /\ preceding_blank_lines = 0
    /\ result = <<>>
    /\ line_number = 0
    /\ files = [p \in Paths |-> <<>>]
    /\ checked = <<>>
    /\ stdout = <<>>
    /\ pc = "check_path"

\* check_path on a file (lines 189-191): check_file is called on it.
CheckPathFile ==
    /\ pc = "check_path"
    /\ isfile
    /\ checked = <<>>
    /\ current_path' = str_path(input_path)
    /\ checked' = Append(checked, str_path(input_path))
    /\ line_number' = 1
    /\ pc' = "check_file"
    /\ UNCHANGED <<input_path, pending, preceding_blank_lines, result, files, stdout>>

\* check_path on a directory (lines 193-198): the next entry, in the order
\* iterdir happens to give; check_file is called on it when its name ends
\* in .py.
CheckPathNext(file) ==
    /\ pc = "check_path"
    /\ ~isfile
    /\ file \in pending
    /\ pending' = pending \ {file}
    /\ IF endswith(path_name(file), <<".", "p", "y">>)
       THEN /\ current_path' = file
            /\ checked' = Append(checked, file)
            /\ line_number' = 1
            /\ pc' = "check_file"
       ELSE UNCHANGED <<current_path, checked, line_number, pc>>
    /\ UNCHANGED <<input_path, preceding_blank_lines, result, files, stdout>>

\* One turn of check_file's loop (lines 174-185): the file yields its next
\* line, the nine checks run on it, line_number goes up.
CheckLine(l, nl) ==
    /\ pc = "check_file"
    /\ lines_read(Paths) < MaxLines
    /\ (nl \/ Lines[l].text # <<>>)
    /\ IF files[current_path] = <<>>
       THEN TRUE
       ELSE files[current_path][Len(files[current_path])].nl
    /\ LET fl == [line |-> l, nl |-> nl]
           after == check_line(self_now, line_text(fl), line_number)
       IN  /\ files' = [files EXCEPT ![current_path] = Append(@, fl)]
           /\ preceding_blank_lines' = after.preceding_blank_lines
           /\ result' = after.result
    /\ line_number' = line_number + 1
    /\ UNCHANGED <<input_path, pending, current_path, checked, stdout, pc>>

\* arguments_check with the SyntaxError caught and the file skipped: the run
\* goes on with the next file.
ArgumentsCheckSkipsFile ==
    /\ pc = "check_file"
    /\ LET tree == ast_parse(files[current_path])
       IN  IF tree.type = "SyntaxError"
           THEN UNCHANGED result
           ELSE result' = arguments_check(self_now, tree).result
    /\ pc' = "check_path"
    /\ UNCHANGED <<input_path, pending, current_path, preceding_blank_lines,
                   line_number, files, checked, stdout>>

\* The end of check_file (line 186): arguments_check parses the file and
\* walks the tree. A SyntaxError is caught nowhere (lines 215-219): it ends
\* the run.
ArgumentsCheck ==
    /\ pc = "check_file"
    /\ LET tree == ast_parse(files[current_path])
       IN  IF tree.type = "SyntaxError"
           THEN /\ pc' = "error"
                /\ UNCHANGED result
           ELSE /\ result' = arguments_check(self_now, tree).result
                /\ pc' = "check_path"
    /\ UNCHANGED <<input_path, pending, current_path, preceding_blank_lines,
                   line_number, files, checked, stdout>>

\* check_path has returned (the file is checked, or the directory has no
\* entry left): print_result (line 219), and the run is over.
PrintResult ==
    /\ pc = "check_path"
    /\ IF isfile THEN checked # <<>> ELSE pending = {}
    /\ stdout' = print_result(self_now)
    /\ pc' = "exit"
    /\ UNCHANGED <<input_path, pending, current_path, preceding_blank_lines, result,
                   line_number, files, checked>>

\* The run over files made of the lines of ScanLines.
Next ==
    \/ CheckPathFile
    \/ \E file \in Paths : CheckPathNext(file)
    \/ \E l \in ScanLines, nl \in BOOLEAN : CheckLine(l, nl)
    \/ ArgumentsCheck
    \/ PrintResult

Spec == Init /\ [][Next]_vars

\* The run over files made of the lines of TreeLines.
NextTree ==
    \/ CheckPathFile
    \/ \E file \in Paths : CheckPathNext(file)
    \/ \E l \in TreeLines, nl \in BOOLEAN : CheckLine(l, nl)
    \/ ArgumentsCheck
    \/ PrintResult

SpecTree == Init /\ [][NextTree]_vars

\* ------------------------------------------------------------------------
\* What the properties below speak of.

AllCodes ==
    << "S001", "S002", "S003", "S004", "S005", "S006", "S007", "S008", "S009",
       "S010", "S011", "S012" >>

\* The place of a rule code in the catalogue: 1 for S001, ..., 12 for S012.
CodeIndex(code) == CHOOSE i \in 1..Len(AllCodes) : AllCodes[i] = code

\* S001 to S009 come from the line checks, S010 to S012 from the tree.
IsLineRule(code) == CodeIndex(code) <= Len(AllCodes) - 3

LineCodes == { c \in { AllCodes[i] : i \in 1..Len(AllCodes) } : IsLineRule(c) }

Range(seq) == { seq[i] : i \in 1..Len(seq) }

\* The findings stored for a path: empty when the dict has no such key.
Findings(p) ==
    IF \E i \in 1..Len(result) : result[i].key = p THEN lookup(result, p) ELSE <<>>

\* How often the pair (n, code) stands in the findings of p.
Count(p, n, code) ==
    Cardinality({ i \in 1..Len(Findings(p)) : Findings(p)[i] = <<n, code>> })

\* check_file has returned for p: its lines are scanned and its tree walked.
Done(p) ==
    /\ p \in Range(checked)
    /\ (p # checked[Len(checked)] \/ pc \in {"check_path", "exit"})

\* check_file was left for p, by returning or by an exception.
Left(p) ==
    /\ p \in Range(checked)
    /\ (p # checked[Len(checked)] \/ pc # "check_file")

\* Line n of p, as written in the file, and its statement.
TextAt(p, n) == Lines[files[p][n].line].text

StmtAt(p, n) == Lines[files[p][n].line].stmt

IsBlank(p, n) == TextAt(p, n) = <<>>

\* The name holds an upper-case letter.
HasUpper(name) == \E i \in 1..Len(name) : name[i] \in UpperAZ

\* The statement list holds an assignment to a simple name with an
\* upper-case letter.
AssignsUpper(body) ==
    \E i \in 1..Len(body) :
        /\ body[i].type = "Assign"
        /\ \E t \in 1..Len(body[i].targets) :
               /\ body[i].targets[t].type = "Name"
               /\ HasUpper(body[i].targets[t].id)

\* All formal parameters of a function, and all its default values, in the
\* order of the source.
Parameters(fn) ==
    fn.args.posonlyargs \o fn.args.args \o fn.args.vararg \o fn.args.kwonlyargs
        \o fn.args.kwarg

DefaultValues(fn) == fn.args.defaults \o fn.args.kw_defaults

\* a <= b in the lexicographic order of strings.
RECURSIVE LexLE(_, _)
LexLE(a, b) ==
    IF a = <<>> THEN TRUE
    ELSE IF b = <<>> THEN FALSE
    ELSE IF Head(a) = Head(b) THEN LexLE(Tail(a), Tail(b))
    ELSE Ord(Head(a)) < Ord(Head(b))

\* The number of findings in the whole store.
RECURSIVE TotalFindings(_)
TotalFindings(d) ==
    IF d = <<>> THEN 0 ELSE Len(Head(d).val) + TotalFindings(Tail(d))

\* The printed lines of one file, as (line_number, code) pairs, in order.
PrintedFor(p) ==
    LET OfFile(o) == o.file_name = p
        sel == SelectSeq(stdout, OfFile)
    IN  [i \in 1..Len(sel) |-> <<sel[i].line, sel[i].code>>]

\* ------------------------------------------------------------------------
\* The claims.

\* C1: within the line scan of one file, a line receives S006 exactly when
\* it is not blank and the three lines before it are blank, and then once,
\* on its own number; blank lines receive none.
C1_BlankRunPerFile ==
    \A p \in Paths : \A n \in 1..Len(files[p]) :
        Count(p, n, "S006") =
            IF /\ ~IsBlank(p, n)
               /\ n > 3
               /\ \A k \in (n - 3)..(n - 1) : IsBlank(p, k)
            THEN 1 ELSE 0

\* What is left of C1: it holds of the first file of a run, which starts
\* with the counter at 0.
BlankRunFirstFile ==
    checked # <<>> =>
        LET p == checked[1]
        IN  \A n \in 1..Len(files[p]) :
                Count(p, n, "S006") =
                    IF /\ ~IsBlank(p, n)
                       /\ n > 3
                       /\ \A k \in (n - 3)..(n - 1) : IsBlank(p, k)
                    THEN 1 ELSE 0

\* C2: the blank-line counter is 0 when the first line of a file is checked.
C2_CounterResetPerFile ==
    (pc = "check_file" /\ line_number = 1) => preceding_blank_lines = 0

\* C3: an assignment to a name with an upper-case letter yields no S011 at
\* module level or in a class body, and yields S011 at its line inside a
\* function.
C3_VariableNamingOnlyInFunctions ==
    \A p \in Paths : Done(p) =>
        \A n \in 1..Len(files[p]) :
            LET s == StmtAt(p, n)
            IN  /\ (s.type = "Assign" /\ AssignsUpper(<<s>>)) => Count(p, n, "S011") = 0
                /\ (s.type = "ClassDef" /\ AssignsUpper(s.body)) => Count(p, n, "S011") = 0
                /\ (s.type = "FunctionDef" /\ AssignsUpper(s.body))
                       => Count(p, n, "S011") >= 1

\* C4: a function's line holds S012 once when the function has a default
\* value and its first default value is no literal constant, and not at all
\* otherwise.
C4_MutableDefaultFirstOnly ==
    \A p \in Paths : Done(p) =>
        \A n \in 1..Len(files[p]) :
            LET s == StmtAt(p, n)
            IN  s.type = "FunctionDef" =>
                    Count(p, n, "S012") =
                        IF /\ DefaultValues(s) # <<>>
                           /\ DefaultValues(s)[1].type # "Constant"
                        THEN 1 ELSE 0

\* What is left of C4: it holds of the defaults in node.args.defaults, those
\* of the arguments that can be passed by position.
MutableDefaultPositional ==
    \A p \in Paths : Done(p) =>
        \A n \in 1..Len(files[p]) :
            LET s == StmtAt(p, n)
            IN  s.type = "FunctionDef" =>
                    Count(p, n, "S012") =
                        IF /\ s.args.defaults # <<>>
                           /\ s.args.defaults[1].type # "Constant"
                        THEN 1 ELSE 0

\* C5: a function's line holds one S010 for each of its formal parameters
\* whose name holds an upper-case letter.
C5_ArgumentNamingPerParameter ==
    \A p \in Paths : Done(p) =>
        \A n \in 1..Len(files[p]) :
            LET s == StmtAt(p, n)
            IN  s.type = "FunctionDef" =>
                    Count(p, n, "S010") =
                        Cardinality({ i \in 1..Len(Parameters(s)) :
                                          HasUpper(Parameters(s)[i].arg) })

\* What is left of C5: it holds of the parameters in node.args.args.
ArgumentNamingPositional ==
    \A p \in Paths : Done(p) =>
        \A n \in 1..Len(files[p]) :
            LET s == StmtAt(p, n)
            IN  s.type = "FunctionDef" =>
                    Count(p, n, "S010") =
                        Cardinality({ i \in 1..Len(s.args.args) :
                                          HasUpper(s.args.args[i].arg) })

\* C6: print_result writes one line for each stored finding, the files in
\* the lexicographic order of their paths whatever the order they were
\* analysed in, each file's findings in the order of its list.
C6_PrintOrder ==
    pc = "exit" =>
        /\ Len(stdout) = TotalFindings(result)
        /\ \A i, j \in 1..Len(stdout) :
               i < j => LexLE(stdout[i].file_name, stdout[j].file_name)
        /\ \A p \in Paths : PrintedFor(p) = Findings(p)

\* C6 happens: two files with findings were analysed in the order opposite
\* to the lexicographic one, and the result is printed.
C6_Witness ==
    /\ pc = "exit"
    /\ Len(result) = 2
    /\ result[1].key # result[2].key
    /\ LexLE(result[2].key, result[1].key)
    /\ Len(result[1].val) > 1
    /\ Len(result[2].val) > 1

\* C7 as it stands: no list of a file holds the same (line_number, code)
\* pair twice. (Each line check runs once on each line and arguments_check
\* once on each file, so two equal pairs come from one invocation.)
C7_NoDuplicatePairs ==
    \A p \in Paths : \A n \in 1..Len(files[p]) :
        \A i \in 1..Len(AllCodes) : Count(p, n, AllCodes[i]) <= 1

\* C7, amended: no list of a file holds twice the same pair of a line rule
\* (S001 to S009) or of S012; S010 and S011 may repeat, once for each
\* argument or target at fault.
C7_NoDuplicateLinePairs ==
    \A p \in Paths : \A n \in 1..Len(files[p]) :
        \A code \in LineCodes \cup {"S012"} : Count(p, n, code) <= 1

\* C7 happens: a checked file has a line with two comment parts holding
\* "todo" and a function with two arguments at fault; its list holds S005
\* and S012 once and S010 twice for that line.
C7_Witness ==
    \E p \in Paths : \E n \in 1..Len(files[p]) :
        /\ Done(p)
        /\ files[p][n].line = "bigdef"
        /\ Count(p, n, "S005") = 1
        /\ Count(p, n, "S012") = 1
        /\ Count(p, n, "S010") = 2

\* C8: once the parse of a file has failed the run is in its error state,
\* nothing is printed, the failing file is the last one check_file was
\* called on, and no other file has been read.
C8_ParseFailureIsFatal ==
    \A p \in Paths :
        (Left(p) /\ ast_parse(files[p]).type = "SyntaxError") =>
            /\ pc = "error"
            /\ stdout = <<>>
            /\ p = checked[Len(checked)]
            /\ \A q \in Paths \ Range(checked) : files[q] = <<>>

\* C8 happens: the second file of a directory fails to parse, findings are
\* stored for the first file and for the failing one, and an entry of the
\* directory was never reached.
C8_Witness ==
    /\ pc = "error"
    /\ Len(checked) = 2
    /\ Findings(checked[1]) # <<>>
    /\ Findings(checked[2]) # <<>>
    /\ pending # {}
    /\ stdout = <<>>

\* C9: a line has S001 exactly when it is longer than 79 characters, its
\* newline not counted, and then once.
C9_TooLongIffOver79 ==
    \A p \in Paths : \A n \in 1..Len(files[p]) :
        Count(p, n, "S001") = IF Len(TextAt(p, n)) >= 80 THEN 1 ELSE 0

\* C9 happens: a file holds a line of 79 characters without S001 and a line
\* of 80 characters, the last one and without a newline, with S001.
C9_Witness ==
    \E p \in Paths : \E m, n \in 1..Len(files[p]) :
        /\ Len(TextAt(p, m)) = 79
        /\ Count(p, m, "S001") = 0
        /\ Len(TextAt(p, n)) = 80
        /\ ~files[p][n].nl
        /\ Count(p, n, "S001") = 1

\* C10: in the list of a file check_file has returned for, the findings of
\* the line rules stand in the order of their lines and, on one line, in
\* the order S001, ..., S009 of the checks, and every finding of a tree rule
\* stands after every finding of a line rule.
C10_DiscoveryOrder ==
    \A p \in Paths : Done(p) =>
        LET f == Findings(p)
        IN  \A i, j \in 1..Len(f) :
                i < j =>
                    /\ (IsLineRule(f[i][2]) /\ IsLineRule(f[j][2])) =>
                           \/ f[i][1] < f[j][1]
                           \/ (f[i][1] = f[j][1]
                                   /\ CodeIndex(f[i][2]) <= CodeIndex(f[j][2]))
                    /\ ~IsLineRule(f[i][2]) => ~IsLineRule(f[j][2])

\* C10 happens: a checked file has line findings on its lines 1 and 2,
\* several on one line, and tree findings for line 1 behind those of line 2.
C10_Witness ==
    \E p \in Paths :
        /\ Done(p)
        /\ LET f == Findings(p)
           IN  \E i, j, k \in 1..Len(f) :
                   /\ i < j /\ j < k
                   /\ f[i] = <<1, "S004">>
                   /\ f[j] = <<2, "S005">>
                   /\ f[k] = <<1, "S011">>
                   /\ Count(p, 2, "S004") = 1

====
